---- MODULE Spec2Model ----
(***************************************************************************)
(* Model of app/main.py: the Prometheus instrumentation of a FastAPI       *)
(* service.  One asyncio event loop runs the request tasks (each wrapped   *)
(* by metrics_middleware) and the background task collect_system_metrics.  *)
(* A coroutine runs without interruption between two awaits, so every     *)
(* action below is one such section.  The timers of the sampler count      *)
(* seconds (Tick); the durations a request observes are readings of the    *)
(* clock, drawn from Durations, in milliseconds so that the histogram      *)
(* bucket bounds are integers.                                             *)
(***************************************************************************)
EXTENDS Integers, Sequences, FiniteSets, TLC

\* Bounds of the exploration.
\* Requests served when the application runs without its startup event (as
\* under the test client), and when the sampler task runs beside them.
MaxRequests == 2
MaxRequestsSampling == 1
\* Passes of the loop of simulate_load.
MaxLoadOps == 1

\* asyncio.sleep(10) and psutil.cpu_percent(interval=1), in seconds.
SleepInterval == 10
CpuInterval == 1
\* random.randint(10, 50)
DbConnMin == 10
DbConnMax == 50

Slots == 1..MaxRequests

VARIABLES active_connections, registry, req, sampler, declared

vars == <<active_connections, registry, req, sampler, declared>>

(***************************************************************************)
(* Metric declarations (module level).                                     *)
(***************************************************************************)
REQUEST_COUNT == "fastapi_requests_total"
REQUEST_DURATION == "fastapi_request_duration_seconds"
ACTIVE_CONNECTIONS == "fastapi_active_connections"
BUSINESS_METRICS == "business_operations_total"
ERROR_RATE == "fastapi_errors_total"
SYSTEM_CPU_USAGE == "system_cpu_usage_percent"
SYSTEM_MEMORY_USAGE == "system_memory_usage_percent"
SYSTEM_DISK_USAGE == "system_disk_usage_percent"
DB_CONNECTIONS == "database_connections_active"
DB_QUERY_DURATION == "database_query_duration_seconds"
USER_REGISTRATIONS == "user_registrations_total"
ORDER_PROCESSING == "order_processing_duration_seconds"
CACHE_HITS == "cache_hits_total"
CACHE_MISSES == "cache_misses_total"

CounterNames == {REQUEST_COUNT, BUSINESS_METRICS, ERROR_RATE, USER_REGISTRATIONS,
                 CACHE_HITS, CACHE_MISSES}
GaugeNames == {ACTIVE_CONNECTIONS, SYSTEM_CPU_USAGE, SYSTEM_MEMORY_USAGE,
               SYSTEM_DISK_USAGE, DB_CONNECTIONS}
HistogramNames == {REQUEST_DURATION, DB_QUERY_DURATION, ORDER_PROCESSING}

\* The histograms are declared without a buckets argument: the client library's
\* default upper bounds, here in milliseconds; the last bucket is +Inf.
DefaultBuckets == <<5, 10, 25, 50, 75, 100, 250, 500, 750, 1000, 2500, 5000, 7500, 10000>>
NBuckets == Len(DefaultBuckets) + 1

NoLabels == << >>

(***************************************************************************)
(* Instrument kinds.  A series is keyed by <<metric name, label values>>;  *)
(* a labelled series is created, at zero, by its first labels(...) call.   *)
(***************************************************************************)
ZeroHistogram == [buckets |-> [i \in 1..NBuckets |-> 0], sum |-> 0, count |-> 0]

Child(series, key, zero) == IF key \in DOMAIN series THEN series ELSE series @@ (key :> zero)

\* Counter.labels(...).inc(amount): a negative amount is rejected, the value kept.
Counter_inc(reg, name, labelvalues, amount) ==
    LET key == <<name, labelvalues>>
        cs  == Child(reg.counters, key, 0)
    IN  IF amount < 0
        THEN [reg EXCEPT !.counters = cs]
        ELSE [reg EXCEPT !.counters = [cs EXCEPT ![key] = cs[key] + amount]]

\* Gauge.set(value): last write wins.
Gauge_set(reg, name, value) == [reg EXCEPT !.gauges[name] = value]

\* One observation: every bucket whose bound is >= value, and +Inf, counts it.
ObserveInto(h, value) ==
    [buckets |-> [i \in 1..NBuckets |->
                    IF i = NBuckets \/ value <= DefaultBuckets[i]
                    THEN h.buckets[i] + 1 ELSE h.buckets[i]],
     sum     |-> h.sum + value,
     count   |-> h.count + 1]

\* Histogram.labels(...).observe(value)
Histogram_observe(reg, name, labelvalues, value) ==
    LET key == <<name, labelvalues>>
        hs  == Child(reg.hists, key, ZeroHistogram)
    IN  [reg EXCEPT !.hists = [hs EXCEPT ![key] = ObserveInto(hs[key], value)]]

\* The registry after the module-level declarations: unlabelled metrics have their
\* single series from the start, labelled ones have none yet.
InitRegistry ==
    [counters |-> (<<USER_REGISTRATIONS, NoLabels>> :> 0),
     gauges   |-> [g \in GaugeNames |-> 0],
     hists    |-> (<<DB_QUERY_DURATION, NoLabels>> :> ZeroHistogram)
                  @@ (<<ORDER_PROCESSING, NoLabels>> :> ZeroHistogram)]

(***************************************************************************)
(* Declaring metrics.  `declared` holds the registry's view of the         *)
(* declarations: for every registered name its kind and label names, the   *)
(* declaration last attempted and the error that attempt raised.           *)
(***************************************************************************)
Declaration(name, kind, labelnames) == [name |-> name, kind |-> kind, labelnames |-> labelnames]

\* The module-level declarations, in the order of the module.
Declarations ==
    <<Declaration(REQUEST_COUNT, "counter", <<"method", "endpoint", "status_code">>),
      Declaration(REQUEST_DURATION, "histogram", <<"method", "endpoint">>),
      Declaration(ACTIVE_CONNECTIONS, "gauge", NoLabels),
      Declaration(BUSINESS_METRICS, "counter", <<"operation_type", "status">>),
      Declaration(ERROR_RATE, "counter", <<"error_type">>),
      Declaration(SYSTEM_CPU_USAGE, "gauge", NoLabels),
      Declaration(SYSTEM_MEMORY_USAGE, "gauge", NoLabels),
      Declaration(SYSTEM_DISK_USAGE, "gauge", NoLabels),
      Declaration(DB_CONNECTIONS, "gauge", NoLabels),
      Declaration(DB_QUERY_DURATION, "histogram", NoLabels),
      Declaration(USER_REGISTRATIONS, "counter", NoLabels),
      Declaration(ORDER_PROCESSING, "histogram", NoLabels),
      Declaration(CACHE_HITS, "counter", <<"cache_type">>),
      Declaration(CACHE_MISSES, "counter", <<"cache_type">>)>>

NoError == "none"
DuplicateMetricError == "DuplicateMetricError"

LabelKeys(labelnames) == {labelnames[i] : i \in DOMAIN labelnames}

NoDeclarations ==
    [metrics |-> << >>, last |-> Declaration("", "", NoLabels), error |-> NoError]
EmptyRegistry == [counters |-> << >>, gauges |-> << >>, hists |-> << >>]

\* The single series of a metric declared without labels exists from its
\* declaration on.
WithFirstSeries(reg, d) ==
    IF d.labelnames # NoLabels THEN reg
    ELSE CASE d.kind = "counter" ->
                [reg EXCEPT !.counters = Child(reg.counters, <<d.name, NoLabels>>, 0)]
           [] d.kind = "gauge" ->
                [reg EXCEPT !.gauges = Child(reg.gauges, d.name, 0)]
           [] d.kind = "histogram" ->
                [reg EXCEPT !.hists = Child(reg.hists, <<d.name, NoLabels>>, ZeroHistogram)]

\* Variant: a later declaration of a name replaces the earlier one.
Registry_register_Replace(decl, reg, d) ==
    [declared |-> [metrics |-> (d.name :> [kind |-> d.kind, labelnames |-> d.labelnames])
                               @@ decl.metrics,
                   last    |-> d,
                   error   |-> NoError],
     registry |-> WithFirstSeries(reg, d)]

\* Registry.register(name, kind, labelKeys): a new name is entered; a name
\* already registered is left as it is, and the call fails when the kind or the
\* set of label keys differs from the one registered.
Registry_register(decl, reg, d) ==
    IF d.name \in DOMAIN decl.metrics
    THEN LET old  == decl.metrics[d.name]
             same == old.kind = d.kind /\ LabelKeys(old.labelnames) = LabelKeys(d.labelnames)
         IN  [declared |-> [decl EXCEPT !.last = d,
                                        !.error = IF same THEN NoError
                                                  ELSE DuplicateMetricError],
              registry |-> reg]
    ELSE [declared |-> [metrics |-> decl.metrics
                                    @@ (d.name :> [kind |-> d.kind, labelnames |-> d.labelnames]),
                        last    |-> d,
                        error   |-> NoError],
          registry |-> WithFirstSeries(reg, d)]

\* The declarations of the module, made in order when it is imported.
RECURSIVE ImportModule(_)
ImportModule(n) ==
    IF n = 0 THEN [declared |-> NoDeclarations, registry |-> EmptyRegistry]
    ELSE LET before == ImportModule(n - 1)
         IN  Registry_register(before.declared, before.registry, Declarations[n])

(***************************************************************************)
(* Requests.                                                               *)
(***************************************************************************)
Methods == {"GET", "POST"}
Routes ==
    {<<"GET", "/">>, <<"GET", "/health">>, <<"GET", "/metrics">>,
     <<"POST", "/users/register">>, <<"POST", "/orders">>,
     <<"GET", "/simulate/load">>, <<"GET", "/simulate/error">>,
     <<"GET", "/analytics/metrics">>}
\* The requests the model sends: every route, and one path no route matches.
Requests == Routes \cup {<<"GET", "/missing">>}

\* Failure kinds the downstream application can raise out of call_next
\* (subclasses of Exception), by type name.
ExcKinds == {"RuntimeError", "ResponseValidationError"}
\* Raised at an await when the request task is cancelled: a BaseException that
\* is no Exception.
CancelledError == "CancelledError"
\* Where the recording of the success metrics may raise, and what.
RecordFaults == {"none", "observe", "inc"}
RecordErrors == {"ValueError"}

\* str(response.status_code): the label value of the status code.
StatusLabel(code) ==
    CASE code = 200 -> "200"
      [] code = 404 -> "404"
      [] code = 500 -> "500"

NoResult == [kind |-> "none", status |-> 0, exc |-> ""]
ResponseOf(code) == [kind |-> "response", status |-> code, exc |-> ""]
RaiseOf(e) == [kind |-> "raise", status |-> 0, exc |-> e]

\* A request.  log is the history of the metric calls made on its behalf, in
\* the order of the calls, as <<series key, value>> (the amount of an inc, the
\* value of an observe, the change of a set of the active-requests gauge), and
\* decrements the number of times it has decremented active_connections.
IdleRequest ==
    [pc |-> "idle", hpc |-> "none", method |-> "", path |-> "",
     downstream |-> NoResult, surfaced |-> NoResult,
     body |-> {}, log |-> << >>, decrements |-> 0]

IncOf(name, labelvalues) == <<(<<name, labelvalues>>), 1>>
ObsOf(name, labelvalues, value) == <<(<<name, labelvalues>>), value>>
SetOf(delta) == <<(<<ACTIVE_CONNECTIONS, NoLabels>>), delta>>

\* A blocking call inside a coroutine holds the event loop: no other task runs.
LoopFree == sampler.pc # "cpu_percent"

\* Values of time.time() - start_time, in milliseconds: on a bucket bound, between
\* two bounds, and above the largest bound.
Durations == {500, 3000, 20000}

(***************************************************************************)
(* metrics_middleware                                                      *)
(***************************************************************************)
\* Variant: the gauge is set before the global is incremented.
StartBlock_SetBeforeIncrement(ac, reg) ==
    [ac |-> ac + 1, reg |-> Gauge_set(reg, ACTIVE_CONNECTIONS, ac)]

\* active_connections += 1; ACTIVE_CONNECTIONS.set(active_connections)
StartBlock(ac, reg) ==
    [ac |-> ac + 1, reg |-> Gauge_set(reg, ACTIVE_CONNECTIONS, ac + 1)]

\* Variant: the decrement stands in the except clause and in finally as well.
FinallyBlock_Twice(ac, reg) ==
    [ac |-> ac - 2, reg |-> Gauge_set(reg, ACTIVE_CONNECTIONS, ac - 2)]

\* finally: active_connections -= 1; ACTIVE_CONNECTIONS.set(active_connections)
FinallyBlock(ac, reg) ==
    [ac |-> ac - 1, reg |-> Gauge_set(reg, ACTIVE_CONNECTIONS, ac - 1)]

\* Variant: a failure is also counted as a request answered with status 500.
ExceptBlock_CountsRequest(reg, e) ==
    Counter_inc(Counter_inc(reg, ERROR_RATE, <<e>>, 1),
                REQUEST_COUNT, <<"", "", StatusLabel(500)>>, 1)

\* Variant: every failure is counted under one fixed label.
ExceptBlock_FixedLabel(reg, e) == Counter_inc(reg, ERROR_RATE, <<"Exception">>, 1)

\* except Exception as e: ERROR_RATE.labels(error_type=type(e).__name__).inc()
ExceptBlock(reg, e) == Counter_inc(reg, ERROR_RATE, <<e>>, 1)

\* Variant: the duration is observed in the wrong unit.
RecordDuration_WrongUnit(reg, method, path, duration) ==
    Histogram_observe(reg, REQUEST_DURATION, <<method, path>>, 1000 * duration)

\* REQUEST_DURATION.labels(method, endpoint).observe(duration)
RecordDuration(reg, method, path, duration) ==
    Histogram_observe(reg, REQUEST_DURATION, <<method, path>>, duration)

\* Variant: the request is counted when it arrives and again when it returns.
RecordCount_Twice(reg, method, path, code) ==
    Counter_inc(reg, REQUEST_COUNT, <<method, path, StatusLabel(code)>>, 2)

\* Variant: the series is labelled without the status code of the response.
RecordCount_NoStatus(reg, method, path, code) ==
    Counter_inc(reg, REQUEST_COUNT, <<method, path, "">>, 1)

\* Variant: the series is overwritten with 1 instead of incremented.
RecordCount_Overwrite(reg, method, path, code) ==
    LET key == <<REQUEST_COUNT, <<method, path, StatusLabel(code)>>>>
    IN  [reg EXCEPT !.counters = (key :> 1) @@ reg.counters]

\* REQUEST_COUNT.labels(method, endpoint, status_code).inc()
RecordCount(reg, method, path, code) ==
    Counter_inc(reg, REQUEST_COUNT, <<method, path, StatusLabel(code)>>, 1)

\* Variant: the decrement stands right after `await call_next`, before the
\* outcome is recorded.
Leave_DecrementFirst(r, reg, result, entries) ==
    LET f == FinallyBlock(active_connections, reg)
    IN  /\ active_connections' = f.ac
        /\ registry' = f.reg
        /\ req' = [req EXCEPT ![r].pc = "done",
                              ![r].surfaced = result,
                              ![r].log = @ \o <<SetOf(f.ac - active_connections)>> \o entries,
                              ![r].decrements = @ + (active_connections - f.ac)]
        /\ UNCHANGED <<sampler, declared>>

\* The middleware leaves through its finally clause, after the calls `entries`
\* that led to `reg`, and hands `result` (a response, or the exception it
\* re-raises) to its caller.
Leave(r, reg, result, entries) ==
    LET f == FinallyBlock(active_connections, reg)
    IN  /\ active_connections' = f.ac
        /\ registry' = f.reg
        /\ req' = [req EXCEPT ![r].pc = "done",
                              ![r].surfaced = result,
                              ![r].log = @ \o entries \o <<SetOf(f.ac - active_connections)>>,
                              ![r].decrements = @ + (active_connections - f.ac)]
        /\ UNCHANGED <<sampler, declared>>

\* A request arrives: the section of the middleware up to `await call_next`.
\* Slots are taken in order (which slot a request gets is immaterial).
MwStart(r, m, p) ==
    /\ LoopFree
    /\ req[r].pc = "idle"
    /\ \A q \in Slots : q < r => req[q].pc # "idle"
    /\ r <= (IF sampler.pc = "not_started" THEN MaxRequests ELSE MaxRequestsSampling)
    /\ LET s == StartBlock(active_connections, registry)
       IN  /\ active_connections' = s.ac
           /\ registry' = s.reg
    /\ req' = [req EXCEPT ![r] = [IdleRequest EXCEPT
                                    !.pc = "call_next", !.hpc = "route",
                                    !.method = m, !.path = p,
                                    !.log = <<SetOf(StartBlock(active_connections, registry).ac
                                                    - active_connections)>>]]
    /\ UNCHANGED <<sampler, declared>>

\* call_next returned a response: the rest of the try block, then finally.  Either
\* recording call may raise (fault), which the except clause catches and re-raises.
MwReturn(r, duration, fault, e) ==
    /\ LoopFree
    /\ req[r].pc = "call_next"
    /\ req[r].downstream.kind = "response"
    /\ LET q    == req[r]
           reg1 == IF fault = "observe" THEN registry
                   ELSE RecordDuration(registry, q.method, q.path, duration)
           reg2 == IF fault = "none"
                   THEN RecordCount(reg1, q.method, q.path, q.downstream.status)
                   ELSE ExceptBlock(reg1, e)
           obs  == IF fault = "observe" THEN << >>
                   ELSE <<ObsOf(REQUEST_DURATION, <<q.method, q.path>>, duration)>>
           inc  == IF fault = "none"
                   THEN <<IncOf(REQUEST_COUNT,
                                <<q.method, q.path, StatusLabel(q.downstream.status)>>)>>
                   ELSE <<IncOf(ERROR_RATE, <<e>>)>>
       IN  Leave(r, reg2, IF fault = "none" THEN q.downstream ELSE RaiseOf(e), obs \o inc)

\* Variant: the decrement follows the try statement instead of standing in a
\* finally clause, so a re-raised failure skips it.
MwExcept_NoFinally(r) ==
    /\ LoopFree
    /\ req[r].pc = "call_next"
    /\ req[r].downstream.kind = "raise"
    /\ registry' = ExceptBlock(registry, req[r].downstream.exc)
    /\ req' = [req EXCEPT ![r].pc = "done", ![r].surfaced = req[r].downstream,
                          ![r].log = @ \o <<IncOf(ERROR_RATE, <<req[r].downstream.exc>>)>>]
    /\ UNCHANGED <<active_connections, sampler, declared>>

\* call_next raised an Exception: except clause, bare raise, finally.
MwExcept(r) ==
    /\ LoopFree
    /\ req[r].pc = "call_next"
    /\ req[r].downstream.kind = "raise"
    /\ LET e == req[r].downstream.exc
       IN  Leave(r, ExceptBlock(registry, e), req[r].downstream, <<IncOf(ERROR_RATE, <<e>>)>>)

\* The request task is cancelled while it awaits call_next: CancelledError is no
\* Exception, so only the finally clause runs.  A pending `with
\* DB_QUERY_DURATION.time()` block of the handler observes on its way out.
MwCancelled(r, dbDuration) ==
    /\ LoopFree
    /\ req[r].pc = "call_next"
    /\ req[r].downstream.kind = "none"
    /\ LET inDb == req[r].hpc = "order_db"
           reg1 == IF inDb
                   THEN Histogram_observe(registry, DB_QUERY_DURATION, NoLabels, dbDuration)
                   ELSE registry
       IN  Leave(r, reg1, RaiseOf(CancelledError),
                 IF inDb THEN <<ObsOf(DB_QUERY_DURATION, NoLabels, dbDuration)>> ELSE << >>)

(***************************************************************************)
(* The downstream application behind call_next: routing and the handlers.  *)
(***************************************************************************)
AtHandler(r, h) == LoopFree /\ req[r].pc = "call_next" /\ req[r].hpc = h

Routed(r, m, p) == AtHandler(r, "route") /\ req[r].method = m /\ req[r].path = p

\* The handler moves on to its next await.
Await(r, h) ==
    /\ req' = [req EXCEPT ![r].hpc = h]
    /\ UNCHANGED <<active_connections, registry, sampler, declared>>

\* The application is through: call_next has `result` for the middleware.
Finish(r, reg, result, entries) ==
    /\ registry' = reg
    /\ req' = [req EXCEPT ![r].hpc = "finished", ![r].downstream = result,
                          ![r].log = @ \o entries]
    /\ UNCHANGED <<active_connections, sampler, declared>>

\* No route matches: the router answers 404 itself.
NotFound(r) ==
    /\ AtHandler(r, "route")
    /\ <<req[r].method, req[r].path>> \notin Routes
    /\ Finish(r, registry, ResponseOf(404), << >>)

\* The application raises an Exception no handler catches: call_next raises it.
DownstreamRaises(r, e) ==
    /\ AtHandler(r, "route")
    /\ <<req[r].method, req[r].path>> \in Routes
    /\ Finish(r, registry, RaiseOf(e), << >>)

root(r) == Routed(r, "GET", "/") /\ Finish(r, registry, ResponseOf(200), << >>)

health_check(r) == Routed(r, "GET", "/health") /\ Finish(r, registry, ResponseOf(200), << >>)

get_analytics(r) ==
    Routed(r, "GET", "/analytics/metrics") /\ Finish(r, registry, ResponseOf(200), << >>)

\* The label value of each bucket bound in the exposition text.
LeLabels ==
    <<"0.005", "0.01", "0.025", "0.05", "0.075", "0.1", "0.25", "0.5", "0.75", "1.0",
      "2.5", "5.0", "7.5", "10.0", "+Inf">>

\* generate_latest(REGISTRY): the exposition text as its set of lines.  A TYPE line
\* for every declared metric, a sample line <<name, labels, value>> for every
\* counter and gauge series, and the _bucket, _sum and _count lines of every
\* histogram series.
generate_latest(reg) ==
    {<<"# TYPE", n, "counter">> : n \in CounterNames}
    \cup {<<"# TYPE", n, "gauge">> : n \in GaugeNames}
    \cup {<<"# TYPE", n, "histogram">> : n \in HistogramNames}
    \cup {<<k[1], k[2], reg.counters[k]>> : k \in DOMAIN reg.counters}
    \cup {<<g, NoLabels, reg.gauges[g]>> : g \in GaugeNames}
    \cup UNION {{<<k[1] \o "_bucket", Append(k[2], LeLabels[i]), reg.hists[k].buckets[i]>> :
                   i \in 1..NBuckets}
                \cup {<<k[1] \o "_sum", k[2], reg.hists[k].sum>>,
                      <<k[1] \o "_count", k[2], reg.hists[k].count>>} :
                k \in DOMAIN reg.hists}

\* Variant: the handler serves the text of the registry as the module left it.
get_metrics_Stale(r) ==
    /\ Routed(r, "GET", "/metrics")
    /\ registry' = registry
    /\ req' = [req EXCEPT ![r].hpc = "finished", ![r].downstream = ResponseOf(200),
                          ![r].body = generate_latest(InitRegistry)]
    /\ UNCHANGED <<active_connections, sampler, declared>>

\* Variant: the handler counts the scrapes it serves.
get_metrics_Counting(r) ==
    /\ Routed(r, "GET", "/metrics")
    /\ registry' = Counter_inc(registry, BUSINESS_METRICS, <<"scrape", "success">>, 1)
    /\ req' = [req EXCEPT ![r].hpc = "finished", ![r].downstream = ResponseOf(200),
                          ![r].body = generate_latest(registry),
                          ![r].log = @ \o <<IncOf(BUSINESS_METRICS, <<"scrape", "success">>)>>]
    /\ UNCHANGED <<active_connections, sampler, declared>>

\* GET /metrics
get_metrics(r) ==
    /\ Routed(r, "GET", "/metrics")
    /\ registry' = registry
    /\ req' = [req EXCEPT ![r].hpc = "finished", ![r].downstream = ResponseOf(200),
                          ![r].body = generate_latest(registry)]
    /\ UNCHANGED <<active_connections, sampler, declared>>

\* POST /users/register, up to `await asyncio.sleep(processing_time)`
register_user_begin(r) == Routed(r, "POST", "/users/register") /\ Await(r, "reg_sleep")

\* ... the rest of its try block; hit is random.choice([True, False])
register_user_finish(r, hit) ==
    /\ AtHandler(r, "reg_sleep")
    /\ LET cache == IF hit THEN CACHE_HITS ELSE CACHE_MISSES
           reg1  == Counter_inc(registry, USER_REGISTRATIONS, NoLabels, 1)
           reg2  == Counter_inc(reg1, BUSINESS_METRICS, <<"user_registration", "success">>, 1)
           reg3  == Counter_inc(reg2, cache, <<"user_cache">>, 1)
       IN  Finish(r, reg3, ResponseOf(200),
                  <<IncOf(USER_REGISTRATIONS, NoLabels),
                    IncOf(BUSINESS_METRICS, <<"user_registration", "success">>),
                    IncOf(cache, <<"user_cache">>)>>)

\* ... its except clause, when the awaited call raises an Exception: the
\* HTTPException becomes a 500 response below the middleware.
register_user_except(r) ==
    /\ AtHandler(r, "reg_sleep")
    /\ LET reg1 == Counter_inc(registry, BUSINESS_METRICS, <<"user_registration", "error">>, 1)
           reg2 == Counter_inc(reg1, ERROR_RATE, <<"registration_error">>, 1)
       IN  Finish(r, reg2, ResponseOf(500),
                  <<IncOf(BUSINESS_METRICS, <<"user_registration", "error">>),
                    IncOf(ERROR_RATE, <<"registration_error">>)>>)

\* POST /orders: start_time = time.time(); await asyncio.sleep(processing_time)
process_order_begin(r) == Routed(r, "POST", "/orders") /\ Await(r, "order_sleep")

\* with DB_QUERY_DURATION.time(): await asyncio.sleep(...)
process_order_query(r) == AtHandler(r, "order_sleep") /\ Await(r, "order_db")

\* leaving the with block, ORDER_PROCESSING.observe, BUSINESS_METRICS.inc
process_order_finish(r, dbDuration, duration) ==
    /\ AtHandler(r, "order_db")
    /\ dbDuration <= duration
    /\ LET reg1 == Histogram_observe(registry, DB_QUERY_DURATION, NoLabels, dbDuration)
           reg2 == Histogram_observe(reg1, ORDER_PROCESSING, NoLabels, duration)
           reg3 == Counter_inc(reg2, BUSINESS_METRICS, <<"order_processing", "success">>, 1)
       IN  Finish(r, reg3, ResponseOf(200),
                  <<ObsOf(DB_QUERY_DURATION, NoLabels, dbDuration),
                    ObsOf(ORDER_PROCESSING, NoLabels, duration),
                    IncOf(BUSINESS_METRICS, <<"order_processing", "success">>)>>)

\* its except clause, when one of the awaited calls raises an Exception (the
\* timer of the with block observes before the exception leaves the block)
process_order_except(r, dbDuration) ==
    /\ LoopFree /\ req[r].pc = "call_next" /\ req[r].hpc \in {"order_sleep", "order_db"}
    /\ LET inDb == req[r].hpc = "order_db"
           reg1 == IF inDb
                   THEN Histogram_observe(registry, DB_QUERY_DURATION, NoLabels, dbDuration)
                   ELSE registry
           reg2 == Counter_inc(reg1, BUSINESS_METRICS, <<"order_processing", "error">>, 1)
           reg3 == Counter_inc(reg2, ERROR_RATE, <<"order_processing_error">>, 1)
       IN  Finish(r, reg3, ResponseOf(500),
                  (IF inDb THEN <<ObsOf(DB_QUERY_DURATION, NoLabels, dbDuration)>> ELSE << >>)
                  \o <<IncOf(BUSINESS_METRICS, <<"order_processing", "error">>),
                       IncOf(ERROR_RATE, <<"order_processing_error">>)>>)

OperationTypes == {"read", "write", "update", "delete"}
OperationStatuses == {"success", "error"}
CacheTypes == {"redis", "memcached", "local"}
LoadChoice(t, s, c, h) == [operation_type |-> t, status |-> s, cache_type |-> c, hit |-> h]
\* The random choices of one pass the model draws from.
LoadChoices ==
    {LoadChoice("read", "success", "redis", TRUE),
     LoadChoice("write", "success", "memcached", FALSE),
     LoadChoice("update", "error", "local", TRUE),
     LoadChoice("delete", "error", "redis", FALSE)}

\* One pass of the loop body of simulate_load
LoadOperation(reg, c) ==
    LET reg1 == Counter_inc(reg, BUSINESS_METRICS, <<c.operation_type, c.status>>, 1)
    IN  IF c.hit THEN Counter_inc(reg1, CACHE_HITS, <<c.cache_type>>, 1)
        ELSE Counter_inc(reg1, CACHE_MISSES, <<c.cache_type>>, 1)

RECURSIVE LoadLoop(_, _)
LoadLoop(reg, choices) ==
    IF choices = << >> THEN reg
    ELSE LoadLoop(LoadOperation(reg, Head(choices)), Tail(choices))

RECURSIVE LoadEntries(_)
LoadEntries(choices) ==
    IF choices = << >> THEN << >>
    ELSE LET c == Head(choices)
         IN  <<IncOf(BUSINESS_METRICS, <<c.operation_type, c.status>>),
               IncOf(IF c.hit THEN CACHE_HITS ELSE CACHE_MISSES, <<c.cache_type>>)>>
             \o LoadEntries(Tail(choices))

\* GET /simulate/load; the loop has no await.  The number of passes,
\* random.randint(10, 100) in the source, is bounded by MaxLoadOps here.
simulate_load(r, choices) ==
    /\ Routed(r, "GET", "/simulate/load")
    /\ Finish(r, LoadLoop(registry, choices), ResponseOf(200), LoadEntries(choices))

ErrorTypes == {"database_error", "network_error", "validation_error", "timeout_error"}

\* Variant: the error is counted under the type name of the exception raised
\* instead of the simulated type.
simulate_error_ExceptionLabel(r, error_type) ==
    /\ Routed(r, "GET", "/simulate/error")
    /\ LET reg1 == Counter_inc(registry, ERROR_RATE, <<"HTTPException">>, 1)
           reg2 == Counter_inc(reg1, BUSINESS_METRICS, <<"error_simulation", "error">>, 1)
       IN  Finish(r, reg2, ResponseOf(500),
                  <<IncOf(ERROR_RATE, <<"HTTPException">>),
                    IncOf(BUSINESS_METRICS, <<"error_simulation", "error">>)>>)

\* GET /simulate/error
simulate_error(r, error_type) ==
    /\ Routed(r, "GET", "/simulate/error")
    /\ LET reg1 == Counter_inc(registry, ERROR_RATE, <<error_type>>, 1)
           reg2 == Counter_inc(reg1, BUSINESS_METRICS, <<"error_simulation", "error">>, 1)
       IN  Finish(r, reg2, ResponseOf(500),
                  <<IncOf(ERROR_RATE, <<error_type>>),
                    IncOf(BUSINESS_METRICS, <<"error_simulation", "error">>)>>)

(***************************************************************************)
(* collect_system_metrics, started by startup_event.                       *)
(***************************************************************************)
\* Readings of the host: psutil.cpu_percent, virtual_memory().percent and
\* disk_usage('/') as (used, total).
CpuReadings == {20, 90}
MemoryReadings == {40, 70}
DiskReadings == {<<1, 4>>, <<3, 4>>}
DbReadings == {DbConnMin, DbConnMax}
\* The call of an attempt that raises, if any.
FailPoints == {"none", "cpu", "memory", "disk"}

\* disk_percent = (disk.used / disk.total) * 100
DiskPercent(disk) == (disk[1] * 100) \div disk[2]

\* Variant: the readings are taken first and the gauges set only when all of
\* them succeeded.
SampleInto_AllOrNothing(reg, failAt, cpu, memory, disk, db) ==
    IF failAt # "none" THEN reg
    ELSE Gauge_set(Gauge_set(Gauge_set(Gauge_set(reg, SYSTEM_CPU_USAGE, cpu),
                                       SYSTEM_MEMORY_USAGE, memory),
                             SYSTEM_DISK_USAGE, DiskPercent(disk)),
                   DB_CONNECTIONS, db)

\* Variant: the number of database connections is set on the active-requests
\* gauge.
SampleInto_WrongGauge(reg, failAt, cpu, memory, disk, db) ==
    LET reg1 == IF failAt = "cpu" THEN reg ELSE Gauge_set(reg, SYSTEM_CPU_USAGE, cpu)
        reg2 == IF failAt \in {"cpu", "memory"} THEN reg1
                ELSE Gauge_set(reg1, SYSTEM_MEMORY_USAGE, memory)
        reg3 == IF failAt \in {"cpu", "memory", "disk"} THEN reg2
                ELSE Gauge_set(reg2, SYSTEM_DISK_USAGE, DiskPercent(disk))
    IN  IF failAt = "none" THEN Gauge_set(reg3, ACTIVE_CONNECTIONS, db) ELSE reg3

\* The body of the try block after cpu_percent has returned or raised: the
\* gauges are set in order, up to the call that raises.
SampleInto(reg, failAt, cpu, memory, disk, db) ==
    LET reg1 == IF failAt = "cpu" THEN reg ELSE Gauge_set(reg, SYSTEM_CPU_USAGE, cpu)
        reg2 == IF failAt \in {"cpu", "memory"} THEN reg1
                ELSE Gauge_set(reg1, SYSTEM_MEMORY_USAGE, memory)
        reg3 == IF failAt \in {"cpu", "memory", "disk"} THEN reg2
                ELSE Gauge_set(reg2, SYSTEM_DISK_USAGE, DiskPercent(disk))
    IN  IF failAt = "none" THEN Gauge_set(reg3, DB_CONNECTIONS, db) ELSE reg3

\* asyncio.create_task(collect_system_metrics()), before any request is served.
startup_event ==
    /\ sampler.pc = "not_started"
    /\ \A r \in Slots : req[r].pc = "idle"
    /\ sampler' = [sampler EXCEPT !.pc = "created"]
    /\ UNCHANGED <<active_connections, registry, req, declared>>

\* The task runs (first run, or asyncio.sleep(10) is over) and enters
\* psutil.cpu_percent(interval=1), which blocks the thread of the event loop.
sampler_attempt ==
    /\ \/ sampler.pc = "created"
       \/ sampler.pc = "sleep" /\ sampler.timer = 0
    /\ sampler' = [sampler EXCEPT !.pc = "cpu_percent", !.timer = CpuInterval]
    /\ UNCHANGED <<active_connections, registry, req, declared>>

\* Variant: no try statement around the body of the loop, so a call that raises
\* ends the task.
sampler_collect_Uncaught(failAt, cpu, memory, disk, db) ==
    /\ sampler.pc = "cpu_percent"
    /\ sampler.timer = 0
    /\ registry' = SampleInto(registry, failAt, cpu, memory, disk, db)
    /\ sampler' = IF failAt = "none"
                  THEN [sampler EXCEPT !.pc = "sleep", !.timer = SleepInterval,
                                       !.failed = FALSE, !.failAt = failAt, !.slept = 0]
                  ELSE [sampler EXCEPT !.pc = "terminated", !.failed = TRUE,
                                       !.failAt = failAt]
    /\ UNCHANGED <<active_connections, req, declared>>

\* The rest of the attempt, up to `await asyncio.sleep(10)`: line 174 when no
\* call raised, line 178 in the except clause otherwise.  failed and failAt
\* record whether and where the attempt raised.
sampler_collect(failAt, cpu, memory, disk, db) ==
    /\ sampler.pc = "cpu_percent"
    /\ sampler.timer = 0
    /\ registry' = SampleInto(registry, failAt, cpu, memory, disk, db)
    /\ sampler' = [sampler EXCEPT !.pc = "sleep", !.timer = SleepInterval,
                                  !.failed = (failAt # "none"), !.failAt = failAt,
                                  !.slept = 0]
    /\ UNCHANGED <<active_connections, req, declared>>

\* One second passes.
Tick ==
    /\ ~(sampler.pc = "cpu_percent" /\ sampler.timer = 0)
    /\ sampler.timer > 0
    /\ sampler' = [sampler EXCEPT !.timer = @ - 1,
                                  !.slept = IF sampler.pc = "sleep" THEN @ + 1 ELSE @]
    /\ UNCHANGED <<active_connections, registry, req, declared>>

Init ==
    /\ active_connections = 0
    /\ registry = InitRegistry
    /\ req = [r \in Slots |-> IdleRequest]
    /\ sampler = [pc |-> "not_started", timer |-> 0, failed |-> FALSE, failAt |-> "none",
                  slept |-> 0]
    /\ declared = ImportModule(Len(Declarations)).declared

LoadRuns == UNION {[1..n -> LoadChoices] : n \in 1..MaxLoadOps}

Next ==
    \/ \E r \in Slots, q \in Requests : MwStart(r, q[1], q[2])
    \/ \E r \in Slots, d \in Durations, fault \in RecordFaults, e \in RecordErrors :
            MwReturn(r, d, fault, e)
    \/ \E r \in Slots : MwExcept(r)
    \/ \E r \in Slots, d \in Durations : MwCancelled(r, d)
    \/ \E r \in Slots : NotFound(r)
    \/ \E r \in Slots, e \in ExcKinds : DownstreamRaises(r, e)
    \/ \E r \in Slots : root(r)
    \/ \E r \in Slots : health_check(r)
    \/ \E r \in Slots : get_analytics(r)
    \/ \E r \in Slots : get_metrics(r)
    \/ \E r \in Slots : register_user_begin(r)
    \/ \E r \in Slots, hit \in BOOLEAN : register_user_finish(r, hit)
    \/ \E r \in Slots : register_user_except(r)
    \/ \E r \in Slots : process_order_begin(r)
    \/ \E r \in Slots : process_order_query(r)
    \/ \E r \in Slots, d1 \in Durations, d2 \in Durations : process_order_finish(r, d1, d2)
    \/ \E r \in Slots, d \in Durations : process_order_except(r, d)
    \/ \E r \in Slots, choices \in LoadRuns : simulate_load(r, choices)
    \/ \E r \in Slots, error_type \in ErrorTypes : simulate_error(r, error_type)
    \/ startup_event
    \/ sampler_attempt
    \/ \E failAt \in FailPoints, cpu \in CpuReadings, memory \in MemoryReadings,
          disk \in DiskReadings, db \in DbReadings :
            sampler_collect(failAt, cpu, memory, disk, db)
    \/ Tick

Spec == Init /\ [][Next]_vars

(***************************************************************************)
(* Declarations made after the import of the module: the names of the      *)
(* module again and new names, with every kind and several label sets.     *)
(***************************************************************************)
Kinds == {"counter", "gauge", "histogram"}
DeclaredNames == {REQUEST_COUNT, ACTIVE_CONNECTIONS, "orders_total", "queue_depth"}
DeclaredLabels == {NoLabels, <<"region">>, <<"method", "endpoint", "status_code">>,
                   <<"status_code", "endpoint", "method">>}

\* A metric constructor is called: Counter(name, ...), Gauge(...), Histogram(...).
Declare(d) ==
    /\ LET out == Registry_register(declared, registry, d)
       IN  /\ declared' = out.declared
           /\ registry' = out.registry
    /\ UNCHANGED <<active_connections, req, sampler>>

NextDeclare ==
    \E n \in DeclaredNames, k \in Kinds, l \in DeclaredLabels : Declare(Declaration(n, k, l))

SpecDeclare == Init /\ [][NextDeclare]_vars

(***************************************************************************)
(* Properties.                                                             *)
(***************************************************************************)
InFlight == {r \in Slots : req[r].pc = "call_next"}
Started == {r \in Slots : req[r].pc # "idle"}
Completed == {r \in Slots : req[r].pc = "done"}
CompletedNormally == {r \in Completed : req[r].surfaced.kind = "response"}
ActiveGauge == registry.gauges[ACTIVE_CONNECTIONS]

CounterValue(reg, key) == IF key \in DOMAIN reg.counters THEN reg.counters[key] ELSE 0
ObservationCount(reg, key) == IF key \in DOMAIN reg.hists THEN reg.hists[key].count ELSE 0

RECURSIVE SumOver(_, _)
SumOver(f, keys) ==
    IF keys = {} THEN 0
    ELSE LET k == CHOOSE x \in keys : TRUE IN f[k] + SumOver(f, keys \ {k})

RequestCountTotal(reg) ==
    SumOver(reg.counters, {k \in DOMAIN reg.counters : k[1] = REQUEST_COUNT})

\* The metric calls of all requests, and those on one series.
RECURSIVE LogUpTo(_, _)
LogUpTo(rq, n) == IF n = 0 THEN << >> ELSE LogUpTo(rq, n - 1) \o rq[n].log
CallsOn(rq, key) ==
    LET all == LogUpTo(rq, MaxRequests)
        at  == {j \in 1..Len(all) : all[j][1] = key}
    IN  [j \in at |-> all[j][2]]
Total(calls) == SumOver(calls, DOMAIN calls)

\* C1: the active-requests gauge equals the number of requests in flight, so every
\* request that has completed, with a response or an exception, has given back
\* the one it took; with no request in flight the gauge is 0.
C1_GaugeRestored ==
    /\ ActiveGauge = Cardinality(InFlight)
    /\ InFlight = {} => ActiveGauge = 0

C1_Witness ==
    /\ InFlight = {}
    /\ \E r1, r2 \in Completed :
        /\ req[r1].surfaced.kind = "response"
        /\ req[r2].downstream.kind = "raise" /\ req[r2].surfaced.kind = "raise"

\* C2: every update of the gauge is a delta of exactly one on the value the
\* other requests left (no lost update): a start adds 1, a completion takes 1,
\* and after every step the gauge and the global are started minus finished.
C2_NoLostUpdate ==
    [][/\ \A r \in Slots :
            /\ (req[r].pc = "idle" /\ req'[r].pc # "idle") => ActiveGauge' = ActiveGauge + 1
            /\ (req[r].pc # "done" /\ req'[r].pc = "done") => ActiveGauge' = ActiveGauge - 1
       /\ ActiveGauge' = Cardinality(Started') - Cardinality(Completed')
       /\ active_connections' = ActiveGauge']_vars

\* The later request has completed while the earlier one is still in flight.
C2_Witness ==
    \E r1, r2 \in Slots :
        /\ r1 < r2
        /\ req[r1].pc = "call_next" /\ req[r2].pc = "done"
        /\ ActiveGauge = 1

\* C3: a request has decremented active_connections exactly once when the
\* middleware has left (by return, by the except clause, or by an exception of the
\* recording calls or a cancellation), and not at all before.
C3_DecrementExactlyOnce ==
    \A r \in Slots : req[r].decrements = (IF req[r].pc = "done" THEN 1 ELSE 0)

\* A request whose recording of the success metrics raised.
C3_Witness ==
    \E r \in Completed :
        /\ req[r].downstream.kind = "response"
        /\ req[r].surfaced.kind = "raise"
        /\ req[r].decrements = 1

\* C4: when call_next has raised an Exception, the step of the middleware adds 1
\* to fastapi_errors_total{error_type=<its type name>}, changes no other counter
\* series, and hands the same exception to its caller.
C4_FailureCountedAndReraised ==
    [][\A r \in Slots :
        (req[r].pc = "call_next" /\ req[r].downstream.kind = "raise" /\ req'[r].pc = "done")
        => LET key == <<ERROR_RATE, <<req[r].downstream.exc>>>>
           IN  /\ req'[r].surfaced = RaiseOf(req[r].downstream.exc)
               /\ CounterValue(registry', key) = CounterValue(registry, key) + 1
               /\ \A k \in DOMAIN registry'.counters :
                    k # key => CounterValue(registry', k) = CounterValue(registry, k)]_vars

C4_Witness ==
    \E r \in Completed, e \in ExcKinds :
        /\ req[r].downstream = RaiseOf(e)
        /\ req[r].surfaced = RaiseOf(e)
        /\ CounterValue(registry, <<ERROR_RATE, <<e>>>>) = 1

\* C5: the step in which a request completes normally adds one observation to
\* fastapi_request_duration_seconds{method, path} and 1 to
\* fastapi_requests_total{method, path, status of the response}, and to no other
\* series of the two metrics; the request counter totals the requests that
\* completed normally.
C5_SuccessRecordedOnce ==
    [][/\ \A r \in Slots :
            (req[r].pc = "call_next" /\ req'[r].pc = "done"
             /\ req'[r].surfaced.kind = "response")
            => LET hk == <<REQUEST_DURATION, <<req[r].method, req[r].path>>>>
                   ck == <<REQUEST_COUNT, <<req[r].method, req[r].path,
                                            StatusLabel(req[r].downstream.status)>>>>
               IN  /\ req'[r].surfaced = req[r].downstream
                   /\ ObservationCount(registry', hk) = ObservationCount(registry, hk) + 1
                   /\ CounterValue(registry', ck) = CounterValue(registry, ck) + 1
                   /\ \A k \in DOMAIN registry'.counters :
                        (k[1] = REQUEST_COUNT /\ k # ck)
                        => CounterValue(registry', k) = CounterValue(registry, k)
                   /\ \A k \in DOMAIN registry'.hists :
                        (k[1] = REQUEST_DURATION /\ k # hk)
                        => ObservationCount(registry', k) = ObservationCount(registry, k)
       /\ RequestCountTotal(registry') = Cardinality(CompletedNormally')]_vars

C5_Witness ==
    /\ Cardinality(CompletedNormally) = 2
    /\ RequestCountTotal(registry) = 2
    /\ \E r \in CompletedNormally : req[r].downstream.status = 500

\* The steps of the sampler task and of its timers.
SamplerStep ==
    \/ sampler_attempt
    \/ Tick
    \/ \E failAt \in FailPoints, cpu \in CpuReadings, memory \in MemoryReadings,
          disk \in DiskReadings, db \in DbReadings :
            sampler_collect(failAt, cpu, memory, disk, db)

\* C6: the sampler task, once started, is never in a terminated state and always
\* has a next step; after every attempt, failed or not, it sleeps SleepInterval
\* seconds, and every attempt but the first follows a full sleep.
C6_SamplerNeverStops ==
    /\ sampler.pc \in {"not_started", "created", "cpu_percent", "sleep"}
    /\ sampler.pc # "not_started" => ENABLED SamplerStep
    /\ sampler.pc = "sleep" => sampler.timer + sampler.slept = SleepInterval
    /\ (sampler.pc = "cpu_percent" /\ sampler.slept # 0) => sampler.slept = SleepInterval

\* A new attempt has begun after a failed one.
C6_Witness ==
    /\ sampler.failed
    /\ sampler.pc = "cpu_percent"
    /\ sampler.slept = SleepInterval

\* Nothing but scrapes has happened: the sampler was never started, no request is
\* in flight, and every request served was a GET /metrics that got its response.
OnlyScrapes ==
    /\ sampler.pc = "not_started"
    /\ InFlight = {}
    /\ Completed # {}
    /\ \A r \in Completed :
        /\ req[r].method = "GET" /\ req[r].path = "/metrics"
        /\ req[r].surfaced.kind = "response"

\* C7 as stated: after scrapes alone the registry is what it was before them.
C7_ScrapeLeavesRegistryUnchanged == OnlyScrapes => registry = InitRegistry

\* C7, amended: after n scrapes alone the registry is what it was before them
\* except for the two series the middleware keeps for the scrape requests
\* themselves: fastapi_request_duration_seconds{GET,/metrics} has n observations
\* and fastapi_requests_total{GET,/metrics,200} is n.
C7_ScrapeChangesOnlyItsOwnSeries ==
    OnlyScrapes =>
        LET n  == Cardinality(Completed)
            hk == <<REQUEST_DURATION, <<"GET", "/metrics">>>>
            ck == <<REQUEST_COUNT, <<"GET", "/metrics", "200">>>>
        IN  /\ registry.gauges = InitRegistry.gauges
            /\ registry.counters = (ck :> n) @@ InitRegistry.counters
            /\ DOMAIN registry.hists = DOMAIN InitRegistry.hists \cup {hk}
            /\ registry.hists[hk].count = n
            /\ \A k \in DOMAIN InitRegistry.hists : registry.hists[k] = InitRegistry.hists[k]

C7_Witness == OnlyScrapes /\ Cardinality(Completed) = 2

\* The steps of request r: of its handler and of the middleware around it.
RequestStep(r) ==
    \/ \E d \in Durations, fault \in RecordFaults, e \in RecordErrors : MwReturn(r, d, fault, e)
    \/ MwExcept(r)
    \/ \E d \in Durations : MwCancelled(r, d)
    \/ NotFound(r)
    \/ \E e \in ExcKinds : DownstreamRaises(r, e)
    \/ root(r) \/ health_check(r) \/ get_analytics(r) \/ get_metrics(r)
    \/ register_user_begin(r)
    \/ \E hit \in BOOLEAN : register_user_finish(r, hit)
    \/ register_user_except(r)
    \/ process_order_begin(r) \/ process_order_query(r)
    \/ \E d1 \in Durations, d2 \in Durations : process_order_finish(r, d1, d2)
    \/ \E d \in Durations : process_order_except(r, d)
    \/ \E choices \in LoadRuns : simulate_load(r, choices)
    \/ \E error_type \in ErrorTypes : simulate_error(r, error_type)

\* C8: at no point of the sampler's loop is a request in flight kept from
\* taking its next step.
C8_SamplerNeverBlocksRequests ==
    \A r \in InFlight : ENABLED RequestStep(r)

\* C9: no step lowers or removes a counter series; every counter value is a
\* natural number and equals the sum of the amounts of the inc() calls made on
\* the series; an inc with a negative amount would leave the value as it is.
C9_CountersMonotonic ==
    [][/\ \A k \in DOMAIN registry.counters :
            /\ k \in DOMAIN registry'.counters
            /\ registry'.counters[k] >= registry.counters[k]
       /\ \A k \in DOMAIN registry'.counters :
            /\ k[1] \in CounterNames
            /\ registry'.counters[k] \in Nat
            /\ registry'.counters[k] = Total(CallsOn(req', k))
            /\ Counter_inc(registry', k[1], k[2], -1).counters[k] = registry'.counters[k]]_vars

\* One series has been incremented by two different requests.
C9_Witness ==
    \E k \in DOMAIN registry.counters :
        /\ registry.counters[k] = 2
        /\ \A r \in Slots : \E j \in 1..Len(req[r].log) : req[r].log[j][1] = k

\* C10: in every histogram series the bucket counts do not decrease with the
\* bound; each bucket counts the observations at or below its bound, the +Inf
\* bucket and _count all of them; _sum is the sum of the observed values.
C10_HistogramConsistent ==
    \A k \in DOMAIN registry.hists :
        LET h    == registry.hists[k]
            vals == CallsOn(req, k)
        IN  /\ k[1] \in HistogramNames
            /\ \A i \in 1..(NBuckets - 1) :
                /\ h.buckets[i] <= h.buckets[i + 1]
                /\ h.buckets[i] = Cardinality({j \in DOMAIN vals : vals[j] <= DefaultBuckets[i]})
            /\ h.buckets[NBuckets] = Cardinality(DOMAIN vals)
            /\ h.count = Cardinality(DOMAIN vals)
            /\ h.sum = Total(vals)

\* One series holds an observation on a bucket bound and one above every bound.
C10_Witness ==
    \E k \in DOMAIN registry.hists :
        LET h == registry.hists[k]
        IN  /\ h.count = 2
            /\ h.sum = 20500
            /\ h.buckets[7] = 0 /\ h.buckets[8] = 1 /\ h.buckets[14] = 1
            /\ h.buckets[NBuckets] = 2

\* The declaration registered for a name, without the order of its label names.
Registered(decl, n) ==
    [kind |-> decl.metrics[n].kind, keys |-> LabelKeys(decl.metrics[n].labelnames)]

\* C11: a declaration of a name that is already registered changes neither the
\* declarations nor the series; it raises DuplicateMetricError when its kind or
\* its set of label keys differs from the registered one and raises nothing
\* when they are the same; no declaration ever changes the kind or the label
\* names registered for a name.
C11_DuplicateDeclaration ==
    [][LET d == declared'.last
       IN  /\ \A n \in DOMAIN declared.metrics :
                /\ n \in DOMAIN declared'.metrics
                /\ declared'.metrics[n] = declared.metrics[n]
           /\ d.name \in DOMAIN declared.metrics =>
                /\ registry' = registry
                /\ declared'.metrics = declared.metrics
                /\ declared'.error =
                      (IF Registered(declared, d.name)
                            = [kind |-> d.kind, keys |-> LabelKeys(d.labelnames)]
                       THEN NoError ELSE DuplicateMetricError)]_vars

\* fastapi_requests_total has been declared again as a gauge, which failed, after
\* a new name was registered; the registered declaration is still the module's.
C11_Witness ==
    /\ declared.last.name = REQUEST_COUNT
    /\ declared.last.kind = "gauge"
    /\ declared.error = DuplicateMetricError
    /\ declared.metrics[REQUEST_COUNT] = [kind |-> "counter",
                                         labelnames |-> <<"method", "endpoint", "status_code">>]
    /\ "orders_total" \in DOMAIN declared.metrics

\* The counter has been declared again with the same label keys, which raised
\* nothing.
C11_SameDeclarationReached ==
    /\ declared.last = Declaration(REQUEST_COUNT, "counter",
                                   <<"status_code", "endpoint", "method">>)
    /\ declared.error = NoError
    /\ declared.metrics[REQUEST_COUNT].labelnames = <<"method", "endpoint", "status_code">>
    /\ "orders_total" \in DOMAIN declared.metrics

\* The series on which the requests have made a metric call so far.
SeriesCalled(rq) ==
    LET all == LogUpTo(rq, MaxRequests)
    IN  {all[j][1] : j \in {i \in 1..Len(all) : all[i][1][1] \notin GaugeNames}}

\* The handler of request r serves a scrape in this step.
ScrapeServed(r) ==
    /\ req[r].pc = "call_next" /\ req[r].hpc = "route"
    /\ req[r].method = "GET" /\ req[r].path = "/metrics"
    /\ req'[r].hpc = "finished"
    /\ req'[r].downstream.kind = "response"

\* C12: whatever else is in flight, a scrape the handler serves is a 200 response
\* whose text names every declared metric (fastapi_requests_total among them),
\* carries every series of the registry with its value of that moment, the
\* gauges with the values last set, and, for every series a request has made a
\* call on so far, the total of those calls.
C12_ScrapeCoversEverySeries ==
    [][\A r \in Slots :
        ScrapeServed(r) =>
            LET body == req'[r].body
            IN  /\ req'[r].downstream = ResponseOf(200)
                /\ \A n \in DOMAIN declared.metrics :
                        <<"# TYPE", n, declared.metrics[n].kind>> \in body
                /\ <<"# TYPE", REQUEST_COUNT, "counter">> \in body
                /\ \A k \in DOMAIN registry.counters : <<k[1], k[2], registry.counters[k]>> \in body
                /\ \A g \in GaugeNames : <<g, NoLabels, registry.gauges[g]>> \in body
                /\ <<ACTIVE_CONNECTIONS, NoLabels, Cardinality(InFlight)>> \in body
                /\ \A k \in DOMAIN registry.hists :
                        /\ <<k[1] \o "_count", k[2], registry.hists[k].count>> \in body
                        /\ <<k[1] \o "_sum", k[2], registry.hists[k].sum>> \in body
                        /\ \A i \in 1..NBuckets :
                            <<k[1] \o "_bucket", Append(k[2], LeLabels[i]),
                              registry.hists[k].buckets[i]>> \in body
                /\ \A k \in SeriesCalled(req) :
                        LET calls == CallsOn(req, k)
                        IN  IF k[1] \in CounterNames
                            THEN <<k[1], k[2], Total(calls)>> \in body
                            ELSE /\ <<k[1] \o "_count", k[2], Cardinality(DOMAIN calls)>> \in body
                                 /\ <<k[1] \o "_sum", k[2], Total(calls)>> \in body]_vars

\* A scrape was served while an order, whose handler had made its calls, was
\* still in flight: the text carries the order's series and a gauge of 2.
C12_Witness ==
    \E r1, r2 \in Slots :
        /\ req[r1].pc = "call_next" /\ req[r1].path = "/orders" /\ req[r1].hpc = "finished"
        /\ req[r2].pc = "call_next" /\ req[r2].path = "/metrics" /\ req[r2].hpc = "finished"
        /\ <<BUSINESS_METRICS, <<"order_processing", "success">>, 1>> \in req[r2].body
        /\ <<"order_processing_duration_seconds_count", NoLabels, 1>> \in req[r2].body
        /\ <<ACTIVE_CONNECTIONS, NoLabels, 2>> \in req[r2].body
        /\ <<"# TYPE", REQUEST_COUNT, "counter">> \in req[r2].body

\* A scrape was served beside the sampler: the text carries the sampled gauges.
C12_SampledReached ==
    \E r \in Slots :
        /\ req[r].path = "/metrics" /\ req[r].hpc = "finished"
        /\ <<SYSTEM_CPU_USAGE, NoLabels, 90>> \in req[r].body
        /\ <<DB_CONNECTIONS, NoLabels, DbConnMax>> \in req[r].body

\* The handler of GET /simulate/error runs in this step of request r.
ErrorSimulated(r) ==
    /\ req[r].pc = "call_next" /\ req[r].hpc = "route"
    /\ req[r].method = "GET" /\ req[r].path = "/simulate/error"
    /\ req'[r].hpc = "finished"
    /\ req'[r].downstream.kind # "raise"

\* C13: the handler of GET /simulate/error ends in a 500 response, which is what
\* the middleware hands to the caller; its step adds 1 to exactly one series
\* fastapi_errors_total{error_type} with error_type one of the four simulated
\* types and 1 to business_operations_total{error_simulation, error}, and
\* changes no other series.
C13_ErrorSimulatorFails ==
    [][\A r \in Slots :
        /\ ErrorSimulated(r) =>
            /\ req'[r].downstream = ResponseOf(500)
            /\ \E t \in ErrorTypes :
                LET ek == <<ERROR_RATE, <<t>>>>
                    bk == <<BUSINESS_METRICS, <<"error_simulation", "error">>>>
                IN  /\ CounterValue(registry', ek) = CounterValue(registry, ek) + 1
                    /\ CounterValue(registry', bk) = CounterValue(registry, bk) + 1
                    /\ DOMAIN registry'.counters = DOMAIN registry.counters \cup {ek, bk}
                    /\ \A k \in DOMAIN registry'.counters :
                        k \notin {ek, bk} => registry'.counters[k] = CounterValue(registry, k)
            /\ registry'.gauges = registry.gauges
            /\ registry'.hists = registry.hists
        /\ (req[r].pc = "call_next" /\ req[r].path = "/simulate/error" /\ req'[r].pc = "done"
            /\ req'[r].surfaced.kind = "response")
           => req'[r].surfaced = ResponseOf(500)]_vars

\* Two requests to the simulator have completed with a 500 response, each
\* counted under its own simulated type.
C13_Witness ==
    /\ \A r \in Slots :
        /\ req[r].pc = "done" /\ req[r].path = "/simulate/error"
        /\ req[r].surfaced = ResponseOf(500)
    /\ CounterValue(registry, <<ERROR_RATE, <<"database_error">>>>) = 1
    /\ CounterValue(registry, <<ERROR_RATE, <<"timeout_error">>>>) = 1
    /\ CounterValue(registry, <<BUSINESS_METRICS, <<"error_simulation", "error">>>>) = 2
    /\ CounterValue(registry, <<REQUEST_COUNT, <<"GET", "/simulate/error", "500">>>>) = 2

\* The handler of request r is executing: call_next has been entered and has
\* not come back.
HandlerExecuting == {r \in InFlight : req[r].hpc # "finished"}

GaugeKey == <<ACTIVE_CONNECTIONS, NoLabels>>

\* C14: a request goes idle -> call_next -> done.  The increment of the gauge is
\* the first metric call made for it, before any call of its handler; while it is
\* in flight neither the decrement nor a call on the duration histogram or the
\* request counter has been made; when it is done the decrement is the last
\* call, made once, right after the observation and the count of a response or
\* the error count of a failure.  The gauge is never below the number of
\* requests whose handler is executing.
C14_MiddlewareOrder ==
    [][/\ \A r \in Slots :
            LET q   == req'[r]
                log == q.log
                n   == Len(log)
            IN  /\ <<req[r].pc, q.pc>> \in {<<"idle", "idle">>, <<"idle", "call_next">>,
                                            <<"call_next", "call_next">>,
                                            <<"call_next", "done">>, <<"done", "done">>}
                /\ req[r].pc = "done" => q = req[r]
                /\ q.pc = "idle" => log = << >> /\ q.hpc = "none"
                /\ q.pc # "idle" => n >= 1 /\ log[1] = SetOf(1)
                /\ q.pc = "call_next" =>
                        \A j \in 2..n :
                            log[j][1] \notin {GaugeKey}
                            /\ log[j][1][1] \notin {REQUEST_DURATION, REQUEST_COUNT}
                /\ q.pc = "done" =>
                        /\ n >= 2 /\ log[n] = SetOf(-1)
                        /\ \A j \in 2..(n - 1) : log[j][1] # GaugeKey
                        /\ q.surfaced.kind = "response" =>
                            /\ n >= 4
                            /\ log[n - 2][1] = <<REQUEST_DURATION, <<q.method, q.path>>>>
                            /\ log[n - 1] = IncOf(REQUEST_COUNT,
                                                  <<q.method, q.path,
                                                    StatusLabel(q.surfaced.status)>>)
                        /\ (q.surfaced.kind = "raise" /\ q.surfaced.exc # CancelledError) =>
                            /\ n >= 3
                            /\ log[n - 1] = IncOf(ERROR_RATE, <<q.surfaced.exc>>)
       /\ ActiveGauge' >= Cardinality(HandlerExecuting')]_vars

\* One request has completed after its handler made calls of its own, and
\* another has failed, while nothing is in flight.
C14_Witness ==
    \E r1, r2 \in Completed :
        /\ req[r1].surfaced.kind = "response" /\ Len(req[r1].log) = 7
        /\ req[r2].downstream.kind = "raise" /\ Len(req[r2].log) = 3
        /\ ActiveGauge = 0

SamplerGauges == {SYSTEM_CPU_USAGE, SYSTEM_MEMORY_USAGE, SYSTEM_DISK_USAGE, DB_CONNECTIONS}

\* C15: a step of the sampler task changes no counter or histogram series, not
\* the active-requests gauge and no request; a step of a request (of its
\* middleware or its handler) changes none of the four gauges of the sampler.
C15_SamplerAndRequestsDisjoint ==
    [][/\ sampler' # sampler =>
            /\ registry'.counters = registry.counters
            /\ registry'.hists = registry.hists
            /\ \A g \in GaugeNames \ SamplerGauges : registry'.gauges[g] = registry.gauges[g]
            /\ DOMAIN registry'.gauges = DOMAIN registry.gauges
            /\ active_connections' = active_connections
            /\ req' = req
       /\ req' # req =>
            /\ \A g \in SamplerGauges : registry'.gauges[g] = registry.gauges[g]
            /\ sampler' = sampler]_vars

\* A request was in flight, its handler having made its calls, when the sampler
\* wrote its four gauges.
C15_Witness ==
    \E r \in Slots :
        /\ req[r].pc = "call_next" /\ req[r].hpc = "finished" /\ Len(req[r].log) > 1
        /\ sampler.pc = "sleep" /\ ~sampler.failed /\ sampler.slept = 0
        /\ registry.gauges[SYSTEM_CPU_USAGE] = 90
        /\ registry.gauges[SYSTEM_MEMORY_USAGE] = 70
        /\ registry.gauges[SYSTEM_DISK_USAGE] = 75
        /\ registry.gauges[DB_CONNECTIONS] = DbConnMax
        /\ ActiveGauge = 1

\* The total of fastapi_requests_total over the status codes of one (method, path).
RequestCountOf(reg, m, p) ==
    SumOver(reg.counters,
            {k \in DOMAIN reg.counters : k[1] = REQUEST_COUNT /\ k[2][1] = m /\ k[2][2] = p})

\* The requests to (m, p) whose duration was observed and whose counting then
\* raised.
CountingFailed(m, p) ==
    {r \in Completed :
        /\ req[r].method = m /\ req[r].path = p
        /\ req[r].downstream.kind = "response" /\ req[r].surfaced.kind = "raise"
        /\ \E j \in 1..Len(req[r].log) : req[r].log[j][1] = <<REQUEST_DURATION, <<m, p>>>>}

\* C16 as stated: in every state the _count of the duration histogram of a
\* (method, path) is the total of its request counter, whatever failed.
C16_CountEqualsRequests ==
    \A q \in Requests :
        ObservationCount(registry, <<REQUEST_DURATION, q>>) = RequestCountOf(registry, q[1], q[2])

\* C16, amended: the _count is the total of the request counter plus the number
\* of requests whose counting raised after their observation; a request that
\* failed before its observation, or was cancelled, adds to neither.
C16_CountEqualsRequestsPlusFailedCounts ==
    \A q \in Requests :
        /\ ObservationCount(registry, <<REQUEST_DURATION, q>>)
              = RequestCountOf(registry, q[1], q[2]) + Cardinality(CountingFailed(q[1], q[2]))
        /\ RequestCountOf(registry, q[1], q[2])
              = Cardinality({r \in CompletedNormally : <<req[r].method, req[r].path>> = q})

\* Of two requests to one route, one got its response and the counting of the
\* other raised after its observation.
C16_Witness ==
    \E r1, r2 \in Completed :
        /\ r1 # r2
        /\ <<req[r1].method, req[r1].path>> = <<req[r2].method, req[r2].path>>
        /\ req[r1].surfaced.kind = "response"
        /\ r2 \in CountingFailed(req[r2].method, req[r2].path)
        /\ ObservationCount(registry, <<REQUEST_DURATION, <<req[r1].method, req[r1].path>>>>) = 2
        /\ RequestCountOf(registry, req[r1].method, req[r1].path) = 1

\* The middleware of request r handles a failure of call_next in this step.
FailurePath(r) ==
    /\ req[r].pc = "call_next" /\ req[r].downstream.kind = "raise"
    /\ req'[r].pc = "done"

\* C17: the step of the middleware on a failure of call_next changes no
\* histogram series and no counter series but fastapi_errors_total{error_type =
\* the failure's type name}, which it raises by 1, and takes 1 from the
\* active-requests gauge, which it had raised by 1 at the start; the metric
\* calls of the step are that error count and the decrement.
C17_FailureLeavesSuccessMetrics ==
    [][\A r \in Slots :
        FailurePath(r) =>
            LET e  == req[r].downstream.exc
                ek == <<ERROR_RATE, <<e>>>>
            IN  /\ registry'.hists = registry.hists
                /\ DOMAIN registry'.counters = DOMAIN registry.counters \cup {ek}
                /\ \A k \in DOMAIN registry'.counters :
                        registry'.counters[k] = CounterValue(registry, k) + (IF k = ek THEN 1 ELSE 0)
                /\ \A q \in Requests :
                        /\ RequestCountOf(registry', q[1], q[2]) = RequestCountOf(registry, q[1], q[2])
                        /\ ObservationCount(registry', <<REQUEST_DURATION, q>>)
                              = ObservationCount(registry, <<REQUEST_DURATION, q>>)
                /\ \A g \in GaugeNames \ {ACTIVE_CONNECTIONS} :
                        registry'.gauges[g] = registry.gauges[g]
                /\ ActiveGauge' = ActiveGauge - 1
                /\ req'[r].log = req[r].log \o <<IncOf(ERROR_RATE, <<e>>), SetOf(-1)>>
                /\ Head(req[r].log) = SetOf(1)]_vars

\* A request to a route has failed after another to the same route was
\* answered: the route has one observation and one count, and one error.
C17_Witness ==
    \E r1, r2 \in Completed :
        /\ <<req[r1].method, req[r1].path>> = <<req[r2].method, req[r2].path>>
        /\ req[r1].surfaced.kind = "response"
        /\ req[r2].downstream = RaiseOf("ResponseValidationError")
        /\ req[r2].surfaced = req[r2].downstream
        /\ ObservationCount(registry, <<REQUEST_DURATION, <<req[r2].method, req[r2].path>>>>) = 1
        /\ RequestCountOf(registry, req[r2].method, req[r2].path) = 1
        /\ CounterValue(registry, <<ERROR_RATE, <<"ResponseValidationError">>>>) = 1
        /\ ActiveGauge = 0

\* The gauges of the sampler in the order the attempt sets them, each with the
\* call whose failure keeps it from being set, and the values it can be set to.
SampleOrder == <<SYSTEM_CPU_USAGE, SYSTEM_MEMORY_USAGE, SYSTEM_DISK_USAGE, DB_CONNECTIONS>>
FailOrder == <<"cpu", "memory", "disk", "none">>
SampleValues ==
    <<CpuReadings, MemoryReadings, {DiskPercent(d) : d \in DiskReadings}, DbReadings>>

\* The position of the call that raised (4: none did).
FailIndex(failAt) == CHOOSE i \in 1..4 : FailOrder[i] = failAt

\* The sampler ends an attempt in this step.
AttemptEnds == sampler.pc = "cpu_percent" /\ sampler'.pc # "cpu_percent"

\* C18: an attempt that raises at one of its calls has set the gauges before
\* that call to its new readings and leaves every gauge from that call on at
\* the value it had; an attempt that does not raise sets all four.  Failed or
\* not, the task then sleeps: SleepInterval seconds pass, one by one, before
\* the one next attempt.
C18_PartialSample ==
    [][/\ AttemptEnds =>
            LET f == FailIndex(sampler'.failAt)
            IN  /\ sampler'.failed = (sampler'.failAt # "none")
                /\ \A i \in 1..4 :
                    /\ (i < f \/ f = 4) => registry'.gauges[SampleOrder[i]] \in SampleValues[i]
                    /\ (i >= f /\ f < 4) =>
                            registry'.gauges[SampleOrder[i]] = registry.gauges[SampleOrder[i]]
                /\ sampler'.pc = "sleep" /\ sampler'.timer = SleepInterval /\ sampler'.slept = 0
       /\ (sampler.pc = "sleep" /\ sampler' # sampler) =>
            \/ /\ sampler'.pc = "sleep"
               /\ sampler'.timer = sampler.timer - 1 /\ sampler'.slept = sampler.slept + 1
               /\ sampler'.failAt = sampler.failAt
            \/ /\ sampler'.pc = "cpu_percent"
               /\ sampler.timer = 0 /\ sampler.slept = SleepInterval]_vars

\* After a full sample, an attempt failed at the reading of the disk: the CPU
\* and memory gauges hold new readings, the disk and connection gauges the
\* ones of the sample before; the task has slept its interval since and is in
\* its next attempt.
C18_Witness ==
    /\ sampler.failAt = "disk" /\ sampler.failed
    /\ sampler.pc = "cpu_percent" /\ sampler.slept = SleepInterval
    /\ registry.gauges[SYSTEM_CPU_USAGE] = 90
    /\ registry.gauges[SYSTEM_MEMORY_USAGE] = 70
    /\ registry.gauges[SYSTEM_DISK_USAGE] = 25
    /\ registry.gauges[DB_CONNECTIONS] = DbConnMin

====
